---- MODULE Spec2Model ----
(***************************************************************************)
(* Theme-application pipeline of hyprtheme-manager: the plugin registry    *)
(* (plugin_manager.py, theme_plugins.py), the per-plugin config protocol   *)
(* (theme_plugins.py, plugins/*.py), template rendering                    *)
(* (template_manager.py, theme_plugins.py), the wallpaper colour cache     *)
(* (wallpaper_utils.py) and colour generation (wallpaper_utils.py,         *)
(* color_manager.py).                                                      *)
(*                                                                         *)
(* The components do not share state, so each has its own specification    *)
(* over its own group of variables; the other groups stay at their idle    *)
(* values.                                                                 *)
(***************************************************************************)
EXTENDS Integers, Sequences, FiniteSets, TLC

VARIABLES
    \* ---- registry: PluginManager (plugin_manager.py) ----
    plugin_dir,       \* environment: the plugin names whose module loads, in listing order
    installed,        \* environment: the names whose is_available() is true
    plugins,          \* self.plugins, as the sequence of its keys (dict order)
    enabled_plugins,  \* self.enabled_plugins
    config_file,      \* plugin-config.json: [state, enabled]
    rop,              \* the last registry call: [name, arg]
    rret,             \* its return value (enable/disable), FALSE otherwise
    no_file_at_init,  \* the enablement file was absent when load_config ran
    save_result,      \* how the last save_config ended: "none", "ok", "failed"
    \* ---- the last batch operation ----
    processed,        \* the plugins the batch iterated over
    outcome,          \* what each per-plugin call did: "true", "false", "raise"
    calls,            \* the per-plugin calls made, in order
    results,          \* the returned result map
    raised,           \* an exception reached the caller
    filtered,         \* the batch obtained its list of plugins to process
    \* ---- template rendering (template_manager.py, theme_plugins.py) ----
    tpl,              \* the template text, as its sequence of tokens
    pal_nested,       \* a palette as read_pywal_colors returns it: colors, special
    pal_flat,         \* a palette as TemplatePlugin takes it: one mapping
    rendered,         \* the text the last rendering returned
    tstage,           \* "input", or the renderer that ran last
    \* ---- colour generation (wallpaper_utils.py, color_manager.py) ----
    colors_json,      \* ~/.cache/wal/colors.json: [state, colors]
    current_colors,   \* ColorManager.current_colors
    gen_ret,          \* what _generate_colors_with_pywal returned: [ok, colors]
    cop,              \* the last colour operation
    cret,             \* what load_pywal_colors returned
    plugin_colors,    \* the palette the last commit handed to apply_theme: [reached, colors]
    \* ---- wallpaper colour cache (wallpaper_utils.py) ----
    mtime,            \* environment: st_mtime of each wallpaper file
    cache_write,      \* environment: how a write of wallpaper_colors.yaml ends
    color_cache,      \* WallpaperManager.color_cache: file hash -> palette
    cache_file,       \* wallpaper_colors.yaml: [state, colors]
    cache_kind,       \* what color_cache is: "dict", or "none", "str", "list", "int"
    kraised,          \* the last get_wallpaper_colors raised
    gen_thread,       \* a get_wallpaper_colors between its wal run and its read: [pc, path]
    kop,              \* the last cache call: [name, path]
    kret,             \* what get_wallpaper_colors returned: [ok, colors]
    hit,              \* the last get_wallpaper_colors returned from the cache
    gen_called,       \* the last get_wallpaper_colors ran the generator
    stored,           \* history: the (path, mtime, palette) entries put in the cache
    gen_runs,         \* history: per (path, mtime), the generator runs from
                      \* the first successful one on
    \* ---- one plugin and its files (theme_plugins.py, plugins/*.py) ----
    plugin,           \* the plugin class: its name
    template_file,    \* the plugin's template file: [exists, data]
    config,           \* the file at the plugin's config_path
    backup,           \* the plugin's backup artifact
    main,             \* the application's main config (kitty.conf, style.css)
    gtk4_backup,      \* the gtk4-theme.backup file exists
    fop,              \* the last plugin call
    fret,             \* its return value
    fio,              \* the I/O fault injected into it: "ok" when none
    wrote,            \* the last apply_theme wrote the config file
    write_result,     \* the outcome of its write of the config file, or "none"
    applied,          \* the number of apply_theme calls that returned True
    pre_config,       \* history: the config file before the last call
    main0,            \* history: the main config the session started with
    snap,             \* history: the config file when backup_config last succeeded
    clean,            \* history: only outside edits of the config since then
    \* ---- the GTK application session (main.py) ----
    phase,            \* "start" before __init__, then "running", then "quit"
    wal_dir,          \* the live state directory ~/.cache/wal: what it holds
    theme_backup,     \* ~/.config/Theme-Manager/theme_backup: what it holds
    plugin_cfg,       \* the palette the plugin config files were written from
    theme_applied,    \* ThemeManagerApplication.theme_applied
    selected_wallpaper,
    preview_colors,   \* ThemeManagerApplication.preview_colors
    live_preview_enabled,
    preview_thread,   \* the generate_preview_colors thread: [pc, path]
    colors_thread,    \* the apply_colors_background thread: [pc, path]
    theme_thread,     \* the apply_theme_background thread: [pc, path]
    idle_q,           \* the callbacks queued with GLib.idle_add
    startup_io,       \* the fault injected into backup_current_theme
    wal_dir0,         \* history: the live directory when the session started
    acked,            \* history: a success callback of an apply has run
    quit_restore      \* history: on_quit_action called restore_original_theme

tplVars == <<tpl, pal_nested, pal_flat, rendered, tstage>>

colVars == <<colors_json, current_colors, gen_ret, cop, cret, plugin_colors>>

fileVars == <<plugin, template_file, config, backup, main, gtk4_backup, fop, fret, fio, wrote, write_result,
              applied, pre_config, main0, snap, clean>>

cacheVars == <<mtime, cache_write, color_cache, cache_file, kop, kret, hit,
               gen_called, stored, gen_runs, cache_kind, kraised,
               gen_thread>>

regVars == <<plugin_dir, installed, plugins, enabled_plugins, config_file, rop,
             rret, no_file_at_init, save_result, processed, outcome, calls,
             results, raised, filtered>>

sessVars == <<phase, wal_dir, theme_backup, plugin_cfg, theme_applied,
              selected_wallpaper, preview_colors, live_preview_enabled,
              preview_thread, colors_thread, theme_thread, idle_q, startup_io,
              wal_dir0, acked, quit_restore>>

notRegVars == <<tplVars, colVars, cacheVars, fileVars, sessVars>>
notTplVars == <<regVars, colVars, cacheVars, fileVars, sessVars>>
notColVars == <<regVars, tplVars, cacheVars, fileVars, sessVars>>
notCacheVars == <<regVars, tplVars, fileVars, sessVars>>
notFileVars == <<regVars, tplVars, colVars, cacheVars, sessVars>>
notSessVars == <<regVars, tplVars, colVars, cacheVars, fileVars>>

vars == <<regVars, tplVars, colVars, cacheVars, fileVars, sessVars>>

----------------------------------------------------------------------------
(* Generic helpers *)

Range(s) == {s[i] : i \in 1..Len(s)}

EmptyMap == [x \in {} |-> FALSE]

\* d[k] = v, as a Python dict assignment (the key is added or overwritten)
\* a store that is lost
DictSetDropped(d, k, v) == d

DictSet(d, k, v) == [x \in (DOMAIN d) \cup {k} |-> IF x = k THEN v ELSE d[x]]

\* list.remove(x): drops the first occurrence
RECURSIVE ListRemove(_, _)
ListRemove(s, x) ==
    IF s = <<>> THEN <<>>
    ELSE IF Head(s) = x THEN Tail(s)
    ELSE <<Head(s)>> \o ListRemove(Tail(s), x)

\* dict.update(u)
DictUpdate(d, u) ==
    [x \in (DOMAIN d) \cup (DOMAIN u) |-> IF x \in DOMAIN u THEN u[x] ELSE d[x]]

\* d.get(k, default)
DictGet(d, k, default) == IF k \in DOMAIN d THEN d[k] ELSE default

\* the groups of variables a specification does not use
IdleTemplate ==
    /\ tpl = <<>>
    /\ pal_nested = [present |-> FALSE, colors |-> EmptyMap, special |-> EmptyMap]
    /\ pal_flat = EmptyMap
    /\ rendered = <<>>
    /\ tstage = "idle"

IdleColors ==
    /\ colors_json = [state |-> "absent", colors |-> EmptyMap]
    /\ current_colors = EmptyMap
    /\ gen_ret = [ok |-> FALSE, colors |-> EmptyMap]
    /\ cop = "idle"
    /\ cret = FALSE
    /\ plugin_colors = [reached |-> FALSE, colors |-> EmptyMap]

NoFile == [exists |-> FALSE, data |-> <<>>]
File(data) == [exists |-> TRUE, data |-> data]

NoThread == [pc |-> "idle", path |-> ""]

IdleSession ==
    /\ phase = "idle"
    /\ wal_dir = "absent"
    /\ theme_backup = "absent"
    /\ plugin_cfg = ""
    /\ theme_applied = FALSE
    /\ selected_wallpaper = ""
    /\ preview_colors = ""
    /\ live_preview_enabled = FALSE
    /\ preview_thread = NoThread
    /\ colors_thread = NoThread
    /\ theme_thread = NoThread
    /\ idle_q = <<>>
    /\ startup_io = "ok"
    /\ wal_dir0 = "absent"
    /\ acked = FALSE
    /\ quit_restore = FALSE

IdleFiles ==
    /\ plugin = ""
    /\ template_file = NoFile
    /\ config = NoFile
    /\ backup = NoFile
    /\ main = NoFile
    /\ gtk4_backup = FALSE
    /\ fop = "idle"
    /\ fret = FALSE
    /\ fio = "ok"
    /\ wrote = FALSE
    /\ write_result = "none"
    /\ applied = 0
    /\ pre_config = NoFile
    /\ main0 = NoFile
    /\ snap = [valid |-> FALSE, file |-> NoFile]
    /\ clean = FALSE

IdleCache ==
    /\ mtime = EmptyMap
    /\ cache_write = "ok"
    /\ color_cache = EmptyMap
    /\ cache_file = [state |-> "absent", colors |-> EmptyMap]
    /\ kop = [name |-> "idle", path |-> ""]
    /\ kret = [ok |-> FALSE, colors |-> EmptyMap]
    /\ hit = FALSE
    /\ gen_called = FALSE
    /\ stored = {}
    /\ gen_runs = EmptyMap
    /\ cache_kind = "dict"
    /\ kraised = FALSE
    /\ gen_thread = [pc |-> "idle", path |-> ""]

IdleRegistry ==
    /\ plugin_dir = <<>>
    /\ installed = {}
    /\ plugins = <<>>
    /\ enabled_plugins = <<>>
    /\ config_file = [state |-> "absent", enabled |-> <<>>]
    /\ rop = [name |-> "idle", arg |-> ""]
    /\ rret = FALSE
    /\ no_file_at_init = FALSE
    /\ save_result = "none"
    /\ processed = <<>>
    /\ outcome = EmptyMap
    /\ calls = <<>>
    /\ results = EmptyMap
    /\ raised = FALSE
    /\ filtered = FALSE

----------------------------------------------------------------------------
(* Registry: plugin_manager.py *)

\* the names of the plugin modules under plugins/ and one name that no module defines
PluginNames == {"kitty", "waybar", "mako"}
UnknownName == "ghost"
CallNames == PluginNames \cup {UnknownName}

\* the plugin directories considered: which modules load, in os.listdir order
PluginDirs ==
    { <<"kitty", "waybar", "mako">>, <<"mako", "kitty">>, <<"waybar">>, <<>> }

FileAbsent == [state |-> "absent", enabled |-> <<>>]
FileCorrupt == [state |-> "corrupt", enabled |-> <<>>]
FileWith(list) == [state |-> "ok", enabled |-> list]

\* the enablement files a session may find on disk (written by an earlier
\* session, possibly with other plugins installed, or by hand)
InitialConfigFiles ==
    { FileAbsent, FileCorrupt, FileWith(<<>>), FileWith(<<"kitty">>),
      FileWith(<<"ghost">>), FileWith(<<"waybar", "ghost">>) }

WriteOutcomes == {"ok", "unchanged", "truncated"}

\* load_config as it would be with the default enabling every loaded plugin
load_config_all_loaded(file, loaded, avail) ==
    IF file.state = "absent" THEN loaded
    ELSE IF file.state = "corrupt" THEN <<>>
    ELSE file.enabled

\* the enabled list load_config takes from the file
load_config(file, loaded, avail) ==
    IF file.state = "absent"
    THEN LET IsAvail(n) == n \in avail IN SelectSeq(loaded, IsAvail)
    ELSE IF file.state = "corrupt" THEN <<>>
    ELSE file.enabled

\* the file after save_config; a failed write is caught and only printed:
\* "unchanged" when makedirs/open fails, "truncated" when the dump fails
\* after open(..., 'w') has emptied the file
save_config(file, enabled, wr) ==
    CASE wr = "ok" -> FileWith(enabled)
      [] wr = "unchanged" -> file
      [] wr = "truncated" -> FileCorrupt

SaveResult(wr) == IF wr = "ok" THEN "ok" ELSE "failed"

get_enabled_plugins(enabled, loaded) ==
    LET IsLoaded(n) == n \in Range(loaded) IN SelectSeq(enabled, IsLoaded)

NoBatch ==
    /\ processed' = <<>>
    /\ outcome' = EmptyMap
    /\ calls' = <<>>
    /\ results' = EmptyMap
    /\ raised' = FALSE
    /\ filtered' = FALSE

\* PluginManager.__init__: load_plugins, then load_config
PluginManager_init(wr) ==
    /\ plugins' = plugin_dir
    /\ enabled_plugins' = load_config(config_file, plugin_dir, installed)
    /\ no_file_at_init' = (config_file.state = "absent")
    /\ IF config_file.state = "absent"
       THEN /\ config_file' = save_config(config_file, enabled_plugins', wr)
            /\ save_result' = SaveResult(wr)
       ELSE /\ wr = "ok"
            /\ config_file' = config_file
            /\ save_result' = "none"
    /\ rop' = [name |-> "init", arg |-> ""]
    /\ rret' = FALSE
    /\ NoBatch
    /\ UNCHANGED <<plugin_dir, installed>>
    /\ UNCHANGED notRegVars

\* enable_plugin as it would be without the test "name not in
\* self.enabled_plugins"
enable_plugin_unchecked(name, wr) ==
    /\ rop.name # "new"
    /\ rop' = [name |-> "enable_plugin", arg |-> name]
    /\ IF name \in Range(plugins)
       THEN /\ enabled_plugins' = Append(enabled_plugins, name)
            /\ config_file' = save_config(config_file, enabled_plugins', wr)
            /\ save_result' = SaveResult(wr)
            /\ rret' = TRUE
       ELSE /\ wr = "ok"
            /\ UNCHANGED <<enabled_plugins, config_file>>
            /\ save_result' = "none"
            /\ rret' = FALSE
    /\ NoBatch
    /\ UNCHANGED <<plugin_dir, installed, plugins, no_file_at_init>>
    /\ UNCHANGED notRegVars

enable_plugin(name, wr) ==
    /\ rop.name # "new"
    /\ rop' = [name |-> "enable_plugin", arg |-> name]
    /\ IF name \in Range(plugins) /\ name \notin Range(enabled_plugins)
       THEN /\ enabled_plugins' = Append(enabled_plugins, name)
            /\ config_file' = save_config(config_file, enabled_plugins', wr)
            /\ save_result' = SaveResult(wr)
            /\ rret' = TRUE
       ELSE /\ wr = "ok"
            /\ UNCHANGED <<enabled_plugins, config_file>>
            /\ save_result' = "none"
            /\ rret' = FALSE
    /\ NoBatch
    /\ UNCHANGED <<plugin_dir, installed, plugins, no_file_at_init>>
    /\ UNCHANGED notRegVars

\* a disable_plugin that also restores the plugin's config from its backup
\* and removes the backup
disable_plugin_uninstalls(name, wr) ==
    /\ rop.name # "new"
    /\ rop' = [name |-> "disable_plugin", arg |-> name]
    /\ name \in Range(enabled_plugins)
    /\ enabled_plugins' = ListRemove(enabled_plugins, name)
    /\ config_file' = save_config(config_file, enabled_plugins', wr)
    /\ save_result' = SaveResult(wr)
    /\ rret' = TRUE
    /\ config' = IF name = plugin THEN backup ELSE config
    /\ backup' = IF name = plugin THEN NoFile ELSE backup
    /\ NoBatch
    /\ UNCHANGED <<plugin_dir, installed, plugins, no_file_at_init>>
    /\ UNCHANGED <<plugin, template_file, main, gtk4_backup, fop, fret, fio,
                   wrote, write_result, applied, pre_config, main0, snap, clean>>
    /\ UNCHANGED <<tplVars, colVars, cacheVars, sessVars>>

disable_plugin(name, wr) ==
    /\ rop.name # "new"
    /\ rop' = [name |-> "disable_plugin", arg |-> name]
    /\ IF name \in Range(enabled_plugins)
       THEN /\ enabled_plugins' = ListRemove(enabled_plugins, name)
            /\ config_file' = save_config(config_file, enabled_plugins', wr)
            /\ save_result' = SaveResult(wr)
            /\ rret' = TRUE
       ELSE /\ wr = "ok"
            /\ UNCHANGED <<enabled_plugins, config_file>>
            /\ save_result' = "none"
            /\ rret' = FALSE
    /\ NoBatch
    /\ UNCHANGED <<plugin_dir, installed, plugins, no_file_at_init>>
    /\ UNCHANGED notRegVars

Outcomes == {"true", "false", "raise"}

\* the loop of a batch operation, from its state `acc` on:
\*   for plugin in ...: try: results[plugin.name] = plugin.<call>(...)
\*                      except Exception: results[plugin.name] = False
RECURSIVE TryEachUncaught(_, _, _)
TryEachUncaught(todo, out, acc) ==
    IF todo = <<>> THEN acc
    ELSE LET p == Head(todo) IN
         IF out[p] = "raise"
         THEN [calls |-> Append(acc.calls, p), results |-> acc.results,
               raised |-> TRUE]
         ELSE TryEachUncaught(Tail(todo), out,
                  [calls |-> Append(acc.calls, p),
                   results |-> DictSet(acc.results, p, out[p] = "true"),
                   raised |-> FALSE])

RECURSIVE TryEach(_, _, _)
TryEach(todo, out, acc) ==
    IF todo = <<>> THEN acc
    ELSE LET p == Head(todo)
             r == IF out[p] = "raise" THEN FALSE ELSE out[p] = "true"
         IN  TryEach(Tail(todo), out,
                 [calls |-> Append(acc.calls, p),
                  results |-> DictSet(acc.results, p, r),
                  raised |-> FALSE])

BatchStart == [calls |-> <<>>, results |-> EmptyMap, raised |-> FALSE]

\* a batch operation of PluginManager over get_enabled_plugins()
RegistryBatch(opname, out) ==
    LET todo == get_enabled_plugins(enabled_plugins, plugins)
        end == TryEach(todo, out, BatchStart)
    IN  /\ rop.name # "new"
        /\ rop' = [name |-> opname, arg |-> ""]
        /\ rret' = FALSE
        /\ save_result' = "none"
        /\ processed' = todo
        /\ filtered' = TRUE
        /\ outcome' = out
        /\ calls' = end.calls
        /\ results' = end.results
        /\ raised' = end.raised
        /\ UNCHANGED <<plugin_dir, installed, plugins, enabled_plugins,
                       config_file, no_file_at_init>>
        /\ UNCHANGED notRegVars

apply_themes ==
    \E out \in [Range(get_enabled_plugins(enabled_plugins, plugins)) -> Outcomes] :
        RegistryBatch("apply_themes", out)

backup_configs ==
    \E out \in [Range(get_enabled_plugins(enabled_plugins, plugins)) -> Outcomes] :
        RegistryBatch("backup_configs", out)

restore_configs ==
    \E out \in [Range(get_enabled_plugins(enabled_plugins, plugins)) -> Outcomes] :
        RegistryBatch("restore_configs", out)

(* ThemePluginManager: theme_plugins.py *)

\* self.plugins of ThemePluginManager, in list order
ThemePlugins == <<"Kitty", "Waybar", "Mako", "Wofi">>

\* detect_installation(): True, False, or an error of its mkdir
DetectResults == {"yes", "no", "raise"}

get_available_plugins(det) ==
    LET Detected(n) == det[n] = "yes" IN SelectSeq(ThemePlugins, Detected)

\* detect_installation is called outside the try of the loop: its exception
\* leaves apply_theme_to_all before any plugin is processed
apply_theme_to_all ==
    \E det \in [Range(ThemePlugins) -> DetectResults] :
      LET todo == get_available_plugins(det)
          failed == \E i \in 1..Len(ThemePlugins) :
                       /\ det[ThemePlugins[i]] = "raise"
                       /\ \A j \in 1..(i-1) : det[ThemePlugins[j]] # "raise"
      IN
      /\ rop' = [name |-> "apply_theme_to_all", arg |-> ""]
      /\ rret' = FALSE
      /\ save_result' = "none"
      /\ IF failed
         THEN /\ processed' = <<>>
              /\ filtered' = FALSE
              /\ outcome' = EmptyMap
              /\ calls' = <<>>
              /\ results' = EmptyMap
              /\ raised' = TRUE
         ELSE \E out \in [Range(todo) -> Outcomes] :
                LET end == TryEach(todo, out, BatchStart) IN
                /\ processed' = todo
                /\ filtered' = TRUE
                /\ outcome' = out
                /\ calls' = end.calls
                /\ results' = end.results
                /\ raised' = end.raised
      /\ UNCHANGED <<plugin_dir, installed, plugins, enabled_plugins,
                     config_file, no_file_at_init>>
      /\ UNCHANGED notRegVars

\* the disk state a session starts from; no PluginManager constructed yet
InitRegistry ==
    /\ plugin_dir \in PluginDirs
    /\ installed \in SUBSET PluginNames
    /\ config_file \in InitialConfigFiles
    /\ plugins = <<>>
    /\ enabled_plugins = <<>>
    /\ rop = [name |-> "new", arg |-> ""]
    /\ rret = FALSE
    /\ no_file_at_init = FALSE
    /\ save_result = "none"
    /\ processed = <<>>
    /\ outcome = EmptyMap
    /\ calls = <<>>
    /\ results = EmptyMap
    /\ raised = FALSE
    /\ filtered = FALSE
    /\ IdleTemplate
    /\ IdleColors
    /\ IdleCache
    /\ IdleFiles
    /\ IdleSession

NextRegistry ==
    \/ \E wr \in WriteOutcomes : PluginManager_init(wr)
    \/ \E n \in CallNames, wr \in WriteOutcomes : enable_plugin(n, wr)
    \/ \E n \in CallNames, wr \in WriteOutcomes : disable_plugin(n, wr)

SpecRegistry == InitRegistry /\ [][NextRegistry]_vars

\* the enabled lists a constructed PluginManager may hold (load_config takes
\* the list of the file as it is)
EnabledLists ==
    { <<>>, <<"kitty">>, <<"kitty", "waybar", "mako">>, <<"mako", "kitty">>,
      <<"waybar", "ghost">>, <<"ghost">>, <<"kitty", "kitty">> }

\* a constructed PluginManager (and the stateless ThemePluginManager)
InitBatch ==
    /\ plugin_dir \in PluginDirs
    /\ installed = PluginNames
    /\ plugins = plugin_dir
    /\ enabled_plugins \in EnabledLists
    /\ config_file = FileWith(enabled_plugins)
    /\ rop = [name |-> "init", arg |-> ""]
    /\ rret = FALSE
    /\ no_file_at_init = FALSE
    /\ save_result = "none"
    /\ processed = <<>>
    /\ outcome = EmptyMap
    /\ calls = <<>>
    /\ results = EmptyMap
    /\ raised = FALSE
    /\ filtered = FALSE
    /\ IdleTemplate
    /\ IdleColors
    /\ IdleCache
    /\ IdleFiles
    /\ IdleSession

NextBatch ==
    \/ apply_themes
    \/ backup_configs
    \/ restore_configs
    \/ apply_theme_to_all

SpecBatch == InitBatch /\ [][NextBatch]_vars

----------------------------------------------------------------------------
(* Claims on the registry *)

BatchOps == {"apply_themes", "backup_configs", "restore_configs",
             "apply_theme_to_all"}

(***************************************************************************)
(* A PluginManager whose enabled list starts in registration order, with   *)
(* enable_plugin and disable_plugin calls between its apply_themes calls.  *)
(***************************************************************************)
InitOrder ==
    /\ plugin_dir \in PluginDirs
    /\ installed = PluginNames
    /\ plugins = plugin_dir
    /\ enabled_plugins = plugins
    /\ config_file = FileWith(enabled_plugins)
    /\ rop = [name |-> "init", arg |-> ""]
    /\ rret = FALSE
    /\ no_file_at_init = FALSE
    /\ save_result = "none"
    /\ processed = <<>>
    /\ outcome = EmptyMap
    /\ calls = <<>>
    /\ results = EmptyMap
    /\ raised = FALSE
    /\ filtered = FALSE
    /\ IdleTemplate
    /\ IdleColors
    /\ IdleCache
    /\ IdleFiles
    /\ IdleSession

NextOrder ==
    \/ \E n \in CallNames, wr \in WriteOutcomes : enable_plugin(n, wr)
    \/ \E n \in CallNames, wr \in WriteOutcomes : disable_plugin(n, wr)
    \/ apply_themes

SpecOrder == InitOrder /\ [][NextOrder]_vars

\* position of a name in a list of distinct names
IndexIn(list, name) == CHOOSE i \in DOMAIN list : list[i] = name

\* C1: a batch operation that has its list of plugins calls every one of
\* them, whatever the others did, returns one boolean per processed plugin,
\* False for each that raised or returned False, and raises nothing.
C1_BatchIsolation ==
    (rop.name \in BatchOps /\ filtered) =>
        /\ ~raised
        /\ calls = processed
        /\ DOMAIN results = Range(processed)
        /\ \A p \in Range(processed) :
              /\ results[p] \in BOOLEAN
              /\ (outcome[p] \in {"false", "raise"} => results[p] = FALSE)
              /\ (outcome[p] = "true" => results[p] = TRUE)

\* three plugins, the second raises: {p1: True, p2: False, p3: True}
C1_Witness ==
    /\ rop.name = "apply_themes"
    /\ processed = <<"kitty", "waybar", "mako">>
    /\ outcome["waybar"] = "raise"
    /\ calls = processed
    /\ results = [n \in PluginNames |-> n # "waybar"]

\* the application a plugin themes: PluginManager knows it by its lower-case
\* name, ThemePluginManager by its capitalised one
AppOf(name) ==
    CASE name = "Kitty" -> "kitty"
      [] name = "Waybar" -> "waybar"
      [] name = "Mako" -> "mako"
      [] name = "Wofi" -> "wofi"
      [] OTHER -> name

\* C17: an apply-to-all of either registry applies exactly the enabled and
\* loaded plugins: the keys of its result map are those applications, and no
\* application outside the enabled list is applied.
C17_OnlyEnabledApplied ==
    (rop.name \in {"apply_themes", "apply_theme_to_all"} /\ filtered) =>
        {AppOf(p) : p \in DOMAIN results} =
            {n \in Range(enabled_plugins) : n \in Range(plugins)}

\* C20: within one apply_themes call the enabled plugins are applied in
\* registration order, whatever enable_plugin and disable_plugin calls came
\* before: of two plugins applied, the one registered first is applied first.
C20_RegistrationOrder ==
    rop.name = "apply_themes" =>
        \A i, j \in DOMAIN calls :
            i < j => IndexIn(plugins, calls[i]) < IndexIn(plugins, calls[j])

\* no name occurs twice in the list
NoDuplicates(list) ==
    \A i, j \in DOMAIN list : list[i] = list[j] => i = j

\* C29: from an enabled list without duplicates, every enable_plugin and
\* disable_plugin leaves the list without duplicates; enable_plugin of an
\* enabled plugin and disable_plugin of a plugin that is not enabled return
\* False and change neither the list nor the enablement file.
C29_EnabledOnce ==
    [][/\ NoDuplicates(enabled_plugins) => NoDuplicates(enabled_plugins')
       /\ (rop'.name = "enable_plugin" /\ rop'.arg \in Range(enabled_plugins))
             => (rret' = FALSE /\ UNCHANGED <<enabled_plugins, config_file>>)
       /\ (rop'.name = "disable_plugin" /\ rop'.arg \notin Range(enabled_plugins))
             => (rret' = FALSE /\ UNCHANGED <<enabled_plugins, config_file>>)]_vars

\* a plugin disabled and enabled again, then enabled once more: refused
C29_Witness ==
    /\ rop.name = "enable_plugin"
    /\ ~rret
    /\ rop.arg \in Range(enabled_plugins)
    /\ Len(enabled_plugins) >= 2
    /\ enabled_plugins # plugins
    /\ NoDuplicates(enabled_plugins)

\* C7: constructed without an enablement file, the registry enables exactly
\* the loaded plugins whose is_available() is true, and the file it writes
\* holds exactly that list.
C7_EnablementDefault ==
    (rop.name = "init" /\ no_file_at_init) =>
        /\ Range(enabled_plugins) = {n \in Range(plugins) : n \in installed}
        /\ Len(enabled_plugins) = Cardinality(Range(enabled_plugins))
        /\ (save_result = "ok" => config_file = FileWith(enabled_plugins))

C7_Witness ==
    /\ rop.name = "init"
    /\ no_file_at_init
    /\ save_result = "ok"
    /\ plugins = <<"kitty", "waybar", "mako">>
    /\ enabled_plugins = <<"kitty", "mako">>
    /\ config_file = FileWith(<<"kitty", "mako">>)

\* C8: enable_plugin and disable_plugin of a name that is no loaded plugin
\* return False and change neither the enabled list nor the file.
C8_UnknownNameRejected ==
    [][ (/\ rop'.name \in {"enable_plugin", "disable_plugin"}
         /\ rop'.arg \notin Range(plugins'))
        => (/\ rret' = FALSE
            /\ enabled_plugins' = enabled_plugins
            /\ config_file' = config_file) ]_vars

\* C9: whenever enable_plugin or disable_plugin has returned True, the list
\* in the enablement file equals the in-memory list.
C9_PersistedOnTrue ==
    (rop.name \in {"enable_plugin", "disable_plugin"} /\ rret = TRUE) =>
        config_file = FileWith(enabled_plugins)

----------------------------------------------------------------------------
(* Template rendering: template_manager.py, theme_plugins.py *)

\* A template is a sequence of tokens: a placeholder "{{identifier}}" or a
\* piece of other text.  Both renderers act on placeholders as units:
\* str.replace of the exact text "{{key}}", and re.sub of \{\{(\w+)\}\}.
Ph(id) == "{{" \o id \o "}}"

\* "for i in range(16): key = f'color{i}'"
ColorKeys ==
    << "color0", "color1", "color2", "color3", "color4", "color5", "color6",
       "color7", "color8", "color9", "color10", "color11", "color12",
       "color13", "color14", "color15" >>

SpecialKeys == << "background", "foreground", "cursor" >>

\* the identifiers the templates considered use
TplIdents == {"color0", "color1", "color7", "background", "unknownSlot"}
PhTokens == {Ph(id) : id \in TplIdents}
TplTokens == PhTokens \cup {"text"}
IdentOf(tok) == CHOOSE id \in TplIdents : Ph(id) = tok

MaxTplLen == 2
Templates == UNION {[1..n -> TplTokens] : n \in 0..MaxTplLen}

\* the colour each palette key carries when the palette has it
HexOf(k) ==
    CASE k = "color0" -> "#112233"
      [] k = "color1" -> "#445566"
      [] k = "color7" -> "#778899"
      [] k = "background" -> "#abcdef"
      [] OTHER -> "#0f0f0f"

PaletteOver(keys) == [k \in keys |-> HexOf(k)]

FlatPalettes == {PaletteOver(d) : d \in SUBSET {"color0", "color7", "background"}}

\* {} (read_pywal_colors without a colors.json) or a document with both mappings
NestedPalettes ==
    { [present |-> FALSE, colors |-> EmptyMap, special |-> EmptyMap] } \cup
    { [present |-> TRUE, colors |-> PaletteOver(c), special |-> PaletteOver(sp)] :
        c \in SUBSET {"color0", "color1"}, sp \in SUBSET {"background"} }

\* template.replace("{{key}}", val)
StrReplace(template, key, val) ==
    [i \in 1..Len(template) |-> IF template[i] = Ph(key) THEN val ELSE template[i]]

\* for key in keys: template = template.replace("{{key}}", mapping.get(key, ''))
RECURSIVE ReplaceKeys(_, _, _)
ReplaceKeys(template, keys, mapping) ==
    IF keys = <<>> THEN template
    ELSE ReplaceKeys(StrReplace(template, Head(keys), DictGet(mapping, Head(keys), "")),
                     Tail(keys), mapping)

\* template_manager.render_template
render_template(template, colors) ==
    IF template = <<>> \/ ~colors.present THEN template
    ELSE ReplaceKeys(ReplaceKeys(template, ColorKeys, colors.colors),
                     SpecialKeys, colors.special)

\* TemplatePlugin._substitute_template
template_vars(colors) ==
    DictUpdate(colors,
        [k \in {"background", "foreground", "cursor"} |->
            IF k = "background" THEN DictGet(colors, "color0", "#000000")
            ELSE DictGet(colors, "color7", "#ffffff")])

substitute_template(template, colors) ==
    [i \in 1..Len(template) |->
        IF template[i] \in PhTokens
        THEN DictGet(template_vars(colors), IdentOf(template[i]), template[i])
        ELSE template[i]]

render_template_call ==
    /\ tstage # "idle"
    /\ rendered' = render_template(tpl, pal_nested)
    /\ tstage' = "render_template"
    /\ UNCHANGED <<tpl, pal_nested, pal_flat>>
    /\ UNCHANGED notTplVars

substitute_template_call ==
    /\ tstage # "idle"
    /\ rendered' = substitute_template(tpl, pal_flat)
    /\ tstage' = "_substitute_template"
    /\ UNCHANGED <<tpl, pal_nested, pal_flat>>
    /\ UNCHANGED notTplVars

InitTemplate ==
    /\ tpl \in Templates
    /\ pal_nested \in NestedPalettes
    /\ pal_flat \in FlatPalettes
    /\ rendered = <<>>
    /\ tstage = "input"
    /\ IdleRegistry
    /\ IdleColors
    /\ IdleCache
    /\ IdleFiles
    /\ IdleSession

NextTemplate ==
    \/ render_template_call
    \/ substitute_template_call

SpecTemplate == InitTemplate /\ [][NextTemplate]_vars

(* Claims on template rendering *)

\* the entries of a nested palette: its colors and its special mapping
NestedEntries(colors) == DictUpdate(colors.colors, colors.special)

\* every placeholder with a palette entry replaced by the entry's value,
\* everything else as in the template
ExpectedRendering(template, entries) ==
    [i \in 1..Len(template) |->
        IF template[i] \in PhTokens /\ IdentOf(template[i]) \in DOMAIN entries
        THEN entries[IdentOf(template[i])]
        ELSE template[i]]

\* C3: both renderers replace every {{identifier}} that has a palette entry
\* by the entry's value and leave every other {{identifier}} verbatim.
C3_TotalAndIdentity ==
    /\ tstage = "render_template" =>
           rendered = ExpectedRendering(tpl, NestedEntries(pal_nested))
    /\ tstage = "_substitute_template" =>
           rendered = ExpectedRendering(tpl, pal_flat)

\* C21: _substitute_template substitutes the palette's own background where
\* the palette supplies one, and the value of color0 only where it does not.
C21_AliasOnlyIfMissing ==
    tstage = "_substitute_template" =>
        \A i \in DOMAIN tpl :
            tpl[i] = Ph("background") =>
                rendered[i] = IF "background" \in DOMAIN pal_flat
                              THEN pal_flat["background"]
                              ELSE DictGet(pal_flat, "color0", "#000000")

----------------------------------------------------------------------------
(* Colour generation: wallpaper_utils.py, color_manager.py *)

Slots == Range(ColorKeys)

StdSlots == {"color9", "color10", "color11", "color12", "color13", "color14",
             "color15"}

\* the fixed colours of slots 9..15
standard_colors ==
    [k \in StdSlots |->
        CASE k = "color9" -> "#ff4444"
          [] k = "color10" -> "#44ff44"
          [] k = "color11" -> "#ffff44"
          [] k = "color12" -> "#4444ff"
          [] k = "color13" -> "#ff44ff"
          [] k = "color14" -> "#44ffff"
          [] k = "color15" -> "#ffffff"]

\* ColorManager.load_default_colors
default_colors ==
    [k \in Slots |->
        IF k \in StdSlots THEN standard_colors[k]
        ELSE CASE k = "color0" -> "#1e1e1e"
               [] k = "color1" -> "#ff5555"
               [] k = "color2" -> "#50fa7b"
               [] k = "color3" -> "#f1fa8c"
               [] k = "color4" -> "#bd93f9"
               [] k = "color5" -> "#ff79c6"
               [] k = "color6" -> "#8be9fd"
               [] k = "color7" -> "#f8f8f2"
               [] k = "color8" -> "#6272a4"]

\* the "colors" mappings the external tool may leave in colors.json: any
\* value in any slot, slots missing
RawPalettes ==
    { [k \in d |-> IF k \in StdSlots THEN hi ELSE lo] :
        d \in {Slots, Slots \ StdSlots, {"color0", "color9"}, {}},
        hi \in {"#101010", "#ff4444"},
        lo \in {"#202020", "#303030"} }

\* colors.json: absent, not JSON ("malformed"), JSON without a "colors" key
\* ("nocolors"), JSON whose "colors" is no mapping ("badcolors"), or a
\* document with a "colors" mapping. A "colors" that is a list may begin
\* with key/value pairs: those are kept as the colors of a "badcolors" file.
JsonFiles ==
    { [state |-> st, colors |-> EmptyMap] :
        st \in {"absent", "malformed", "nocolors", "badcolors"} } \cup
    { [state |-> "badcolors", colors |-> [k \in {"color0"} |-> "#000000"]] } \cup
    { [state |-> "ok", colors |-> raw] : raw \in RawPalettes }

NoColors == [ok |-> FALSE, colors |-> EmptyMap]

\* no palette has reached a plugin
NoPalette == [reached |-> FALSE, colors |-> EmptyMap]

\* the override loop as it would be if it only filled in missing slots
override_missing_only(colors) ==
    [k \in (DOMAIN colors) \cup StdSlots |->
        IF k \in DOMAIN colors THEN colors[k] ELSE standard_colors[k]]

\* wallpaper_utils.py: "for color_key, color_value in standard_colors.items():
\*                        colors[color_key] = color_value"
override_standard(colors) ==
    [k \in (DOMAIN colors) \cup StdSlots |->
        IF k \in StdSlots THEN standard_colors[k] ELSE colors[k]]

\* ColorManager._set_standard_colors
set_standard_colors(colors) ==
    [k \in (DOMAIN colors) \cup StdSlots |->
        IF k \in StdSlots THEN standard_colors[k] ELSE colors[k]]

\* what _generate_colors_with_pywal returns once the tool has exited with 0
read_generated(json) ==
    CASE json.state = "absent" -> NoColors
      [] json.state = "malformed" -> NoColors
      [] json.state = "badcolors" -> NoColors
      [] json.state = "nocolors" ->
            [ok |-> TRUE, colors |-> override_standard(EmptyMap)]
      [] json.state = "ok" ->
            [ok |-> TRUE, colors |-> override_standard(json.colors)]

\* WallpaperManager._generate_colors_with_pywal: runs the tool, which
\* rewrites colors.json when it succeeds, then reads the file
RunGenerator(wal, written) ==
    /\ cop' = "generate"
    /\ cret' = FALSE
    /\ IF wal = "ok"
       THEN /\ colors_json' = written
            /\ gen_ret' = read_generated(written)
       ELSE /\ written = colors_json
            /\ colors_json' = colors_json
            /\ gen_ret' = NoColors
    /\ UNCHANGED <<current_colors, plugin_colors>>

generate_colors_with_pywal(wal, written) ==
    /\ cop # "idle"
    /\ kop.name = "idle"
    /\ RunGenerator(wal, written)
    /\ UNCHANGED notColVars

\* the body of ColorManager.load_pywal_colors: [ret, colors]. On a "colors"
\* that is no mapping, current_colors.update raises after it has taken the
\* leading pairs, and the exception is caught.
LoadPywal(cur, json) ==
    CASE json.state = "ok" ->
            [ret |-> TRUE,
             colors |-> set_standard_colors(DictUpdate(cur, json.colors))]
      [] json.state = "badcolors" ->
            [ret |-> FALSE, colors |-> DictUpdate(cur, json.colors)]
      [] OTHER -> [ret |-> FALSE, colors |-> cur]

\* ColorManager.load_pywal_colors
load_pywal_colors ==
    /\ cop # "idle"
    /\ cop' = "load_pywal_colors"
    /\ gen_ret' = NoColors
    /\ current_colors' = LoadPywal(current_colors, colors_json).colors
    /\ cret' = LoadPywal(current_colors, colors_json).ret
    /\ UNCHANGED <<colors_json, plugin_colors>>
    /\ UNCHANGED notColVars

\* ColorManager.refresh_colors_from_wallpaper: the tool runs and, when it
\* exits with 0, load_pywal_colors reads what it left
refresh_colors_from_wallpaper(wal, written) ==
    /\ cop # "idle"
    /\ kop.name = "idle"
    /\ cop' = "refresh_colors_from_wallpaper"
    /\ gen_ret' = NoColors
    /\ IF wal = "ok"
       THEN /\ colors_json' = written
            /\ current_colors' = LoadPywal(current_colors, written).colors
            /\ cret' = LoadPywal(current_colors, written).ret
       ELSE /\ written = colors_json
            /\ cret' = FALSE
            /\ UNCHANGED <<colors_json, current_colors>>
    /\ UNCHANGED plugin_colors
    /\ UNCHANGED notColVars

\* ColorManager.load_default_colors
load_default_colors ==
    /\ cop # "idle"
    /\ cop' = "load_default_colors"
    /\ current_colors' = default_colors
    /\ gen_ret' = NoColors
    /\ cret' = FALSE
    /\ UNCHANGED <<colors_json, plugin_colors>>
    /\ UNCHANGED notColVars

\* template_manager.read_pywal_colors as the commit paths use it: the parsed
\* document, with no override of any slot. An absent file gives {}, which
\* the caller's "if colors:" skips; a file that is not JSON raises into the
\* caller's except. [reached, colors]: colors are the document's colour slots.
read_pywal_colors(json) ==
    IF json.state \in {"absent", "malformed"}
    THEN NoPalette
    ELSE [reached |-> TRUE, colors |-> json.colors]

\* ThemeManagerWindow.apply_theme_background and apply_colors_background:
\* the tool runs, and when it exits with 0 the palette read back from
\* colors.json goes to plugin_manager.apply_themes
apply_theme_background(wal, written) ==
    /\ cop # "idle"
    /\ kop.name = "idle"
    /\ cop' = "apply_theme_background"
    /\ gen_ret' = NoColors
    /\ cret' = FALSE
    /\ IF wal = "ok"
       THEN /\ colors_json' = written
            /\ plugin_colors' = read_pywal_colors(written)
       ELSE /\ written = colors_json
            /\ colors_json' = colors_json
            /\ plugin_colors' = NoPalette
    /\ UNCHANGED current_colors
    /\ UNCHANGED notColVars

\* ColorManager.get_template_colors: current_colors and the semantic names
\* (of which background and foreground are kept here)
get_template_colors(cur) ==
    DictUpdate(cur,
        [k \in {"background", "foreground"} |->
            IF k = "background" THEN DictGet(cur, "color0", "#000000")
            ELSE DictGet(cur, "color7", "#000000")])

\* gdk_ui.py on_apply_colors_clicked: get_template_colors goes to
\* apply_theme_to_all
on_apply_colors_clicked ==
    /\ cop # "idle"
    /\ cop' = "on_apply_colors_clicked"
    /\ gen_ret' = NoColors
    /\ cret' = FALSE
    /\ plugin_colors' = [reached |-> TRUE,
                         colors |-> get_template_colors(current_colors)]
    /\ UNCHANGED <<colors_json, current_colors>>
    /\ UNCHANGED notColVars

\* a constructed ColorManager over whatever colors.json holds
InitColors ==
    /\ colors_json \in JsonFiles
    /\ current_colors = default_colors
    /\ gen_ret = NoColors
    /\ cop = "init"
    /\ cret = FALSE
    /\ plugin_colors = NoPalette
    /\ IdleRegistry
    /\ IdleTemplate
    /\ IdleCache
    /\ IdleFiles
    /\ IdleSession

WalResults == {"ok", "failed", "notfound"}

NextColors ==
    \/ \E wal \in WalResults, written \in JsonFiles :
          generate_colors_with_pywal(wal, written)
    \/ load_pywal_colors
    \/ load_default_colors
    \/ \E wal \in WalResults, written \in JsonFiles :
          refresh_colors_from_wallpaper(wal, written)
    \/ \E wal \in WalResults, written \in JsonFiles :
          apply_theme_background(wal, written)
    \/ on_apply_colors_clicked

SpecColors == InitColors /\ [][NextColors]_vars

(* Claims on colour generation *)

HasStandardSlots(colors) ==
    \A k \in StdSlots : k \in DOMAIN colors /\ colors[k] = standard_colors[k]

\* C5: every palette _generate_colors_with_pywal returns, and current_colors
\* after load_pywal_colors returned True, has color9..color15 at the fixed
\* standard values, whatever colors.json holds in those slots.
C5_StandardSlots ==
    /\ (cop = "generate" /\ gen_ret.ok) => HasStandardSlots(gen_ret.colors)
    /\ (cop = "load_pywal_colors" /\ cret) => HasStandardSlots(current_colors)

\* the tool wrote other colours into slots 9..15 and the palette was produced
C5_Witness ==
    /\ cop = "generate"
    /\ gen_ret.ok
    /\ colors_json.state = "ok"
    /\ DOMAIN colors_json.colors = Slots
    /\ colors_json.colors["color9"] = "#101010"
    /\ gen_ret.colors["color0"] = "#202020"

\* a call of the colour generation that failed
GenerationFailed ==
    \/ cop' = "generate" /\ ~gen_ret'.ok
    \/ cop' \in {"load_pywal_colors", "refresh_colors_from_wallpaper"} /\ ~cret'

\* C16: a colour generation that fails produces no palette and leaves
\* current_colors exactly as it was before the call.
C16_FailureKeepsPalette ==
    [][GenerationFailed =>
          /\ current_colors' = current_colors
          /\ gen_ret'.colors = EmptyMap]_vars

\* C22: every palette a commit hands to the plugins' apply_theme, from
\* apply_theme_background or apply_colors_background through
\* read_pywal_colors or from the apply-colours handler through
\* get_template_colors, has the standard colours in color9..color15.
C22_CommittedPaletteStandard ==
    plugin_colors.reached =>
        \A k \in StdSlots :
            /\ k \in DOMAIN plugin_colors.colors
            /\ plugin_colors.colors[k] = standard_colors[k]

----------------------------------------------------------------------------
(* Wallpaper colour cache: wallpaper_utils.py *)

\* two wallpaper files; the name of the second is the first one's followed
\* by "_" and a timestamp, the closest two paths come to one cache key
Paths == {"/w/a.png", "/w/a.png_1.0"}

\* the wallpaper that is rewritten during a session; the other one keeps
\* its mtime and stands for a file named like a cache key of the first
Rewritten == {"/w/a.png"}

MaxMtime == 2

\* the generator runs counted per wallpaper
MaxGenRuns == 2

\* one more generator run for a (path, mtime): counted from the first
\* successful one
CountRun(runs, key, ok) ==
    [runs EXCEPT ![key] =
        IF @ = 0 THEN (IF ok THEN 1 ELSE 0)
        ELSE IF @ < MaxGenRuns THEN @ + 1 ELSE @]
Mtimes == 1..MaxMtime

\* str() of the float st_mtime
MtimeStr(m) == ToString(m) \o ".0"

\* _get_file_hash as it would be if it hashed the path alone
file_hash_path_only(path, m) == path

\* WallpaperManager._get_file_hash: md5 of f"{path.absolute()}_{st_mtime}";
\* the digest is taken as the string it is computed from (md5 is assumed
\* free of collisions on these strings)
get_file_hash(path, m) == path \o "_" \o MtimeStr(m)

\* what the tool leaves in colors.json during a cache miss
GeneratedFiles ==
    { [state |-> "malformed", colors |-> EmptyMap],
      [state |-> "ok", colors |-> [k \in Slots |-> "#202020"]],
      [state |-> "ok", colors |-> [k \in Slots |-> "#303030"]] }

\* WallpaperManager._save_color_cache: the whole file is rewritten; a failed
\* write is caught and only printed
save_color_cache(file, cache, wr) ==
    CASE wr = "ok" -> [state |-> "ok", colors |-> cache]
      [] wr = "unchanged" -> file
      [] wr = "truncated" -> [state |-> "corrupt", colors |-> EmptyMap]

\* "if colors:" as it would be if it let every result through
TruthyAlways(r) == TRUE

\* get_wallpaper_colors: "if colors:", false for None and for {}
Truthy(r) == r.ok /\ DOMAIN r.colors # {}

\* WallpaperManager.get_wallpaper_colors. A color_cache that is None or a
\* number raises at "file_hash in self.color_cache"; one that is a string
\* or a list (neither holding the hash) passes that test and raises at
\* "self.color_cache[file_hash] = colors" once the generator has returned
\* a palette.
get_wallpaper_colors(path, wal, written) ==
    LET file_hash == get_file_hash(path, mtime[path]) IN
    /\ kop.name # "idle"
    /\ kop' = [name |-> "get", path |-> path]
    /\ IF cache_kind \in {"none", "int"}
       THEN /\ wal = "ok" /\ written = colors_json
            /\ kraised' = TRUE
            /\ kret' = [ok |-> FALSE, colors |-> EmptyMap]
            /\ hit' = FALSE
            /\ gen_called' = FALSE
            /\ UNCHANGED <<color_cache, cache_file, stored, gen_runs, colVars>>
       ELSE IF cache_kind = "dict" /\ file_hash \in DOMAIN color_cache
       THEN /\ wal = "ok" /\ written = colors_json
            /\ kraised' = FALSE
            /\ kret' = [ok |-> TRUE, colors |-> color_cache[file_hash]]
            /\ hit' = TRUE
            /\ gen_called' = FALSE
            /\ UNCHANGED <<color_cache, cache_file, stored, gen_runs, colVars>>
       ELSE /\ RunGenerator(wal, written)
            /\ gen_runs' = CountRun(gen_runs, <<path, mtime[path]>>, gen_ret'.ok)
            /\ hit' = FALSE
            /\ gen_called' = TRUE
            /\ IF Truthy(gen_ret')
               THEN IF cache_kind = "dict"
                    THEN /\ color_cache' = DictSet(color_cache, file_hash, gen_ret'.colors)
                         /\ cache_file' = save_color_cache(cache_file, color_cache', cache_write)
                         /\ stored' = stored \cup {<<path, mtime[path], gen_ret'.colors>>}
                         /\ kret' = gen_ret'
                         /\ kraised' = FALSE
                    ELSE /\ kraised' = TRUE
                         /\ kret' = [ok |-> FALSE, colors |-> EmptyMap]
                         /\ UNCHANGED <<color_cache, cache_file, stored>>
               ELSE /\ kret' = gen_ret'
                    /\ kraised' = FALSE
                    /\ UNCHANGED <<color_cache, cache_file, stored>>
    /\ UNCHANGED <<mtime, cache_write, cache_kind, gen_thread>>
    /\ UNCHANGED notCacheVars

\* WallpaperManager.clear_cache
clear_cache ==
    /\ kop.name # "idle"
    /\ kop' = [name |-> "clear_cache", path |-> ""]
    /\ color_cache' = EmptyMap
    /\ cache_file' = [state |-> "absent", colors |-> EmptyMap]
    /\ stored' = {}
    /\ gen_runs' = [k \in Paths \X Mtimes |-> 0]
    /\ cache_kind' = "dict"
    /\ kraised' = FALSE
    /\ kret' = [ok |-> FALSE, colors |-> EmptyMap]
    /\ hit' = FALSE
    /\ gen_called' = FALSE
    /\ UNCHANGED <<mtime, cache_write, gen_thread, colVars>>
    /\ UNCHANGED notCacheVars

\* environment: a wallpaper file is rewritten or touched
ModifyWallpaper(path, m) ==
    /\ kop.name # "idle"
    /\ m # mtime[path]
    /\ mtime' = [mtime EXCEPT ![path] = m]
    /\ kop' = [name |-> "modify", path |-> path]
    /\ kret' = [ok |-> FALSE, colors |-> EmptyMap]
    /\ hit' = FALSE
    /\ gen_called' = FALSE
    /\ kraised' = FALSE
    /\ UNCHANGED <<cache_write, color_cache, cache_file, stored, gen_runs,
                   cache_kind, gen_thread, colVars>>
    /\ UNCHANGED notCacheVars

\* a WallpaperManager constructed over a directory without a cache file
InitCache ==
    /\ mtime = [p \in Paths |-> 1]
    /\ cache_write \in WriteOutcomes
    /\ color_cache = EmptyMap
    /\ cache_file = [state |-> "absent", colors |-> EmptyMap]
    /\ kop = [name |-> "init", path |-> ""]
    /\ kret = [ok |-> FALSE, colors |-> EmptyMap]
    /\ hit = FALSE
    /\ gen_called = FALSE
    /\ stored = {}
    /\ gen_runs = [k \in Paths \X Mtimes |-> 0]
    /\ cache_kind = "dict"
    /\ kraised = FALSE
    /\ gen_thread = [pc |-> "idle", path |-> ""]
    /\ colors_json \in GeneratedFiles \cup {[state |-> "absent", colors |-> EmptyMap]}
    /\ current_colors = default_colors
    /\ gen_ret = NoColors
    /\ cop = "init"
    /\ cret = FALSE
    /\ plugin_colors = NoPalette
    /\ IdleRegistry
    /\ IdleTemplate
    /\ IdleFiles
    /\ IdleSession

NextCache ==
    \/ \E p \in Paths, wal \in WalResults, written \in GeneratedFiles :
          get_wallpaper_colors(p, wal, written)
    \/ clear_cache
    \/ \E p \in Rewritten, m \in Mtimes : ModifyWallpaper(p, m)

SpecCache == InitCache /\ [][NextCache]_vars

(***************************************************************************)
(* A WallpaperManager constructed over a directory whose cache file        *)
(* already exists, in whatever shape it was left.                          *)
(***************************************************************************)

\* wallpaper_colors.yaml as found: absent; not YAML ("corrupt"); an empty
\* document ("empty"); a list, string or number ("nonmapping"); a mapping
\* without the wallpaper_colors key ("nokey"); a mapping whose
\* wallpaper_colors is null, a string, a list or a number; or a mapping
\* whose wallpaper_colors is a mapping ("ok")
PersistedFiles ==
    { [state |-> st, colors |-> EmptyMap] :
        st \in {"absent", "corrupt", "empty", "nonmapping", "nokey", "wc_null",
                "wc_str", "wc_list", "wc_int", "ok"} } \cup
    { [state |-> "ok",
       colors |-> [h \in {get_file_hash("/w/a.png", 1)} |->
                      [k \in Slots |-> "#202020"]]] }

\* WallpaperManager._load_color_cache: [kind, cache]
load_color_cache(file) ==
    CASE file.state = "ok" -> [kind |-> "dict", cache |-> file.colors]
      [] file.state = "wc_null" -> [kind |-> "none", cache |-> EmptyMap]
      [] file.state = "wc_str" -> [kind |-> "str", cache |-> EmptyMap]
      [] file.state = "wc_list" -> [kind |-> "list", cache |-> EmptyMap]
      [] file.state = "wc_int" -> [kind |-> "int", cache |-> EmptyMap]
      [] OTHER -> [kind |-> "dict", cache |-> EmptyMap]

InitCacheLoad ==
    /\ mtime = [p \in Paths |-> 1]
    /\ cache_write \in WriteOutcomes
    /\ cache_file \in PersistedFiles
    /\ color_cache = load_color_cache(cache_file).cache
    /\ cache_kind = load_color_cache(cache_file).kind
    /\ kraised = FALSE
    /\ gen_thread = NoThread
    /\ kop = [name |-> "init", path |-> ""]
    /\ kret = [ok |-> FALSE, colors |-> EmptyMap]
    /\ hit = FALSE
    /\ gen_called = FALSE
    /\ stored = {<<"/w/a.png", 1, [k \in Slots |-> "#202020"]>> : x \in DOMAIN color_cache}
    /\ gen_runs = [k \in Paths \X Mtimes |-> 0]
    /\ colors_json \in GeneratedFiles \cup {[state |-> "absent", colors |-> EmptyMap]}
    /\ current_colors = default_colors
    /\ gen_ret = NoColors
    /\ cop = "init"
    /\ cret = FALSE
    /\ plugin_colors = NoPalette
    /\ IdleRegistry
    /\ IdleTemplate
    /\ IdleFiles
    /\ IdleSession

SpecCacheLoad == InitCacheLoad /\ [][NextCache]_vars

\* C23: a cache file that is unreadable or malformed in any way loads as an
\* empty cache, and no get_wallpaper_colors that follows raises.
C23_MalformedLoadsEmpty ==
    /\ (kop.name = "init" /\ cache_file.state \notin {"ok", "absent"}) =>
           (cache_kind = "dict" /\ color_cache = EmptyMap)
    /\ ~kraised

(***************************************************************************)
(* get_wallpaper_colors at the grain of its two accesses to the shared     *)
(* ~/.cache/wal/colors.json: the wal run that writes it, and the read that *)
(* follows. Other wal runs (apply_live_preview and the apply threads of    *)
(* main.py, another instance of the application) write the same file.      *)
(***************************************************************************)

\* the colors the tool computes from a wallpaper: a function of the image
PaletteOf(path) ==
    [k \in Slots |-> IF path = "/w/a.png" THEN "#202020" ELSE "#303030"]

\* colors.json as "wal -i path" leaves it
WalFile(path) == [state |-> "ok", colors |-> PaletteOf(path)]

\* get_wallpaper_colors up to the end of the wal run of
\* _generate_colors_with_pywal
get_wallpaper_colors_wal(path, wal) ==
    LET file_hash == get_file_hash(path, mtime[path]) IN
    /\ kop.name # "idle"
    /\ gen_thread.pc = "idle"
    /\ kop' = [name |-> "get", path |-> path]
    /\ kraised' = FALSE
    /\ IF file_hash \in DOMAIN color_cache
       THEN /\ wal = "ok"
            /\ kret' = [ok |-> TRUE, colors |-> color_cache[file_hash]]
            /\ hit' = TRUE
            /\ gen_called' = FALSE
            /\ UNCHANGED <<gen_thread, colVars>>
       ELSE /\ hit' = FALSE
            /\ gen_called' = TRUE
            /\ kret' = [ok |-> FALSE, colors |-> EmptyMap]
            /\ cop' = "generate"
            /\ cret' = FALSE
            /\ gen_ret' = NoColors
            /\ IF wal = "ok"
               THEN /\ colors_json' = WalFile(path)
                    /\ gen_thread' = [pc |-> "read", path |-> path]
               ELSE UNCHANGED <<colors_json, gen_thread>>
            /\ UNCHANGED <<current_colors, plugin_colors>>
    /\ UNCHANGED <<mtime, cache_write, color_cache, cache_file, stored,
                   gen_runs, cache_kind>>
    /\ UNCHANGED <<regVars, tplVars, fileVars, sessVars>>

\* the rest of the call: colors.json is read, slots 9..15 are overridden,
\* the palette is cached under the wallpaper's hash and returned
get_wallpaper_colors_read ==
    LET path == gen_thread.path
        file_hash == get_file_hash(path, mtime[path])
        r == read_generated(colors_json)
    IN  /\ gen_thread.pc = "read"
        /\ gen_thread' = NoThread
        /\ gen_ret' = r
        /\ kret' = r
        /\ gen_runs' = CountRun(gen_runs, <<path, mtime[path]>>, r.ok)
        /\ IF Truthy(r)
           THEN /\ color_cache' = DictSet(color_cache, file_hash, r.colors)
                /\ cache_file' = save_color_cache(cache_file, color_cache', cache_write)
                /\ stored' = stored \cup {<<path, mtime[path], r.colors>>}
           ELSE UNCHANGED <<color_cache, cache_file, stored>>
        /\ UNCHANGED <<mtime, cache_write, kop, hit, gen_called, cache_kind,
                       kraised>>
        /\ UNCHANGED <<colors_json, current_colors, cop, cret, plugin_colors>>
        /\ UNCHANGED <<regVars, tplVars, fileVars, sessVars>>

\* another wal run on the live cache: apply_live_preview or an apply thread
\* of main.py, or another instance
other_wal_run(path) ==
    /\ kop.name # "idle"
    /\ colors_json # WalFile(path)
    /\ colors_json' = WalFile(path)
    /\ UNCHANGED <<current_colors, gen_ret, cop, cret, plugin_colors>>
    /\ UNCHANGED cacheVars
    /\ UNCHANGED <<regVars, tplVars, fileVars, sessVars>>

NextOverlap ==
    \/ \E p \in Paths, wal \in WalResults : get_wallpaper_colors_wal(p, wal)
    \/ get_wallpaper_colors_read
    \/ \E p \in Paths : other_wal_run(p)
    \/ clear_cache

SpecOverlap == InitCache /\ [][NextOverlap]_vars

\* C26: whatever colour generations overlap on colors.json, the palette the
\* cache holds under a wallpaper's identity is the palette generated from
\* that wallpaper.
C26_EntryIsOwnPalette ==
    \A t \in stored : t[3] = override_standard(PaletteOf(t[1]))

(* Claims on the colour cache *)

\* the entries stored for a path while the file had a given mtime
StoredFor(path, m) == {t \in stored : t[1] = path /\ t[2] = m}

\* C2: a get_wallpaper_colors call on a path whose (path, mtime) has a stored
\* palette returns exactly that palette and leaves the cache as it is; a call
\* on a (path, mtime) nothing is stored for - as after the file's mtime
\* changed - is a miss: it returns no palette stored under another mtime but
\* what the generator produces.
C2_CacheKeyedOnPathMtime ==
    [][ kop'.name = "get" =>
          LET prior == StoredFor(kop'.path, mtime[kop'.path]) IN
          IF prior # {}
          THEN /\ hit'
               /\ ~gen_called'
               /\ \A t \in prior : kret' = [ok |-> TRUE, colors |-> t[3]]
               /\ color_cache' = color_cache
          ELSE /\ ~hit'
               /\ gen_called'
               /\ kret' = gen_ret' ]_vars

\* a hit at the file's second mtime while another palette is stored for the
\* same path under its first mtime
C2_Witness ==
    /\ kop.name = "get"
    /\ hit
    /\ mtime[kop.path] = 2
    /\ \E t \in stored : t[1] = kop.path /\ t[2] = 1 /\ t[3] # kret.colors
    /\ \E t \in stored : t[1] = kop.path /\ t[2] = 2 /\ t[3] = kret.colors

\* C12: once the generator has run successfully for a wallpaper, no further
\* get_wallpaper_colors call on the same (path, mtime) runs the generator
\* again, and each such call returns the palette stored then.
C12_NoRegeneration ==
    /\ \A k \in Paths \X Mtimes : gen_runs[k] <= 1
    /\ (kop.name = "get" /\ gen_runs[<<kop.path, mtime[kop.path]>>] >= 1) =>
           /\ kret.ok
           /\ \A t \in StoredFor(kop.path, mtime[kop.path]) : kret.colors = t[3]

\* a hit on one wallpaper after the generator last ran for the other one and
\* left another palette
C12_Witness ==
    /\ kop.name = "get"
    /\ hit
    /\ \A p \in Paths : gen_runs[<<p, mtime[p]>>] = 1
    /\ gen_ret.ok
    /\ gen_ret.colors # kret.colors

\* C15: a get_wallpaper_colors call, the selection path of the other
\* front-ends, leaves the live state directory of the colour tool as it was.
C15_PreviewLeavesLiveState ==
    [][kop'.name = "get" => colors_json' = colors_json]_vars

\* C30: a get_wallpaper_colors whose generation failed adds no entry to the
\* cache and does not rewrite the cache file; every entry of the cache is a
\* non-empty palette; and the next call for the same wallpaper runs the
\* generator again.
C30_FailureNotCached ==
    [][/\ (kop'.name = "get" /\ gen_called' /\ ~kret'.ok)
             => (color_cache' = color_cache /\ cache_file' = cache_file)
       /\ \A h \in DOMAIN color_cache' : DOMAIN color_cache'[h] # {}
       /\ (/\ kop.name = "get" /\ gen_called /\ ~kret.ok
           /\ kop'.name = "get" /\ kop'.path = kop.path)
             => gen_called']_vars

\* a failed generation for one wallpaper while the other one's palette is
\* in the cache and in the file
C30_Witness ==
    /\ kop.name = "get" /\ gen_called /\ ~kret.ok
    /\ DOMAIN color_cache # {}
    /\ get_file_hash(kop.path, mtime[kop.path]) \notin DOMAIN color_cache
    /\ cache_file = [state |-> "ok", colors |-> color_cache]

\* ---------------------------------------------------------------------------
\* One plugin and its files: theme_plugins.py and plugins/*.py
\* ---------------------------------------------------------------------------

\* the classes of theme_plugins.py, by the name they pass to __init__
TemplatePlugins == {"Kitty", "Waybar", "Mako", "Wofi"}

\* the classes of plugins/, by their name property
DirPlugins == {"kitty", "waybar", "mako", "wofi", "gtk"}

PluginClasses == TemplatePlugins \cup DirPlugins

\* the most apply_theme calls that succeed in one session
MaxApplies == 2

\* shutil.copy2(src, dst): the destination afterwards
copy2_missing(src, dst, io) == dst

copy2(src, dst, io) == IF io = "ok" THEN src ELSE dst

\* backup_config as it would be if it kept a backup that already exists
ThemePlugin_backup_config_once(cfg, bak, io) ==
    IF ~cfg.exists \/ bak.exists
    THEN [ret |-> TRUE, backup |-> bak]
    ELSE [ret |-> io = "ok", backup |-> copy2(cfg, bak, io)]

\* ThemePlugin.backup_config of theme_plugins.py
ThemePlugin_backup_config(cfg, bak, io) ==
    IF ~cfg.exists
    THEN [ret |-> TRUE, backup |-> bak]
    ELSE [ret |-> io = "ok", backup |-> copy2(cfg, bak, io)]

\* ThemePlugin.restore_config of theme_plugins.py
ThemePlugin_restore_config(cfg, bak, io) ==
    IF ~bak.exists
    THEN [ret |-> FALSE, config |-> cfg]
    ELSE [ret |-> io = "ok", config |-> copy2(bak, cfg, io)]

\* backup_config(backup_dir) of the plugins/ classes: the copy of the config
\* file; GtkPlugin's success flag is the same test
DirPlugin_backup_config(cfg, bak, io) ==
    IF cfg.exists
    THEN [ret |-> io = "ok", backup |-> copy2(cfg, bak, io)]
    ELSE [ret |-> FALSE, backup |-> bak]

\* restore_config(backup_dir) of the plugins/ classes
DirPlugin_restore_config(cfg, bak, io) ==
    IF bak.exists
    THEN [ret |-> io = "ok", config |-> copy2(bak, cfg, io)]
    ELSE [ret |-> FALSE, config |-> cfg]

\* open(path, 'w') and write(content) under the outcome wr
WriteFile(old, content, wr) ==
    CASE wr = "ok" -> File(content)
      [] wr = "unchanged" -> old
      [] wr = "truncated" -> File(<<>>)

\* TemplatePlugin.apply_theme: the backup precedes the write and its result
\* is dropped; a failed write is caught and answered with False
TemplatePlugin_apply_theme(cfg, bak, tf, colors, bio, io) ==
    IF ~tf.exists
    THEN [ret |-> FALSE, config |-> cfg, backup |-> bak, wrote |-> FALSE,
          write |-> "none"]
    ELSE LET saved == ThemePlugin_backup_config(cfg, bak, bio).backup
             themed == substitute_template(tf.data, colors)
         IN [ret |-> io = "ok",
             config |-> WriteFile(cfg, themed, io),
             backup |-> saved,
             wrote |-> io # "unchanged",
             write |-> io]

\* apply_theme of plugins/kitty, waybar, mako, wofi: no template text means
\* False; write_config swallows a failed write, so the call still returns True
DirPlugin_apply_theme(cfg, bak, tf, colors, io) ==
    IF ~tf.exists \/ tf.data = <<>>
    THEN [ret |-> FALSE, config |-> cfg, backup |-> bak, wrote |-> FALSE,
          write |-> "none"]
    ELSE [ret |-> TRUE,
          config |-> WriteFile(cfg, render_template(tf.data, colors), io),
          backup |-> bak,
          wrote |-> io # "unchanged",
          write |-> io]

\* GtkPlugin.apply_theme touches no file
GtkPlugin_apply_theme(cfg, bak) ==
    [ret |-> TRUE, config |-> cfg, backup |-> bak, wrote |-> FALSE,
     write |-> "none"]

\* ---- the include directive in the application's main config ----
\* A main config is held as content.split('\n'): an existing file has at
\* least the one empty line.

KittyInclude == "include theme-manager-colors.conf"
PywalInclude == "include pywal.conf"
WaybarImport == "@import 'theme-manager-style.css';"

\* the directive a plugin class maintains in the main config
IncludeLine(p) ==
    CASE p = "Kitty" -> KittyInclude
      [] p = "kitty" -> PywalInclude
      [] p = "Waybar" -> WaybarImport
      [] OTHER -> ""

\* the classes whose apply_theme repairs the main config
IncludePlugins == {"Kitty", "kitty", "Waybar"}

DefineColorLines == {"@define-color bg #000000;", "  @define-color fg #ffffff;"}
CommentEndLines == {"*/"}

KittyMains(inc) ==
    { NoFile, File(<<"">>), File(<<"font_size 11.0", "">>),
      File(<<"font_size 11.0", inc, "">>) }

WaybarMains ==
    { NoFile, File(<<"">>),
      File(<<"/* Waybar", "*/", "* { }", "">>),
      File(<<"@define-color bg #000000;", "* { }",
             "  @define-color fg #ffffff;", "window { }">>),
      File(<<"/* Waybar", "*/", "@define-color bg #000000;", "">>),
      File(<<"* { }", WaybarImport, "">>) }

MainFiles(p) ==
    CASE p \in {"Kitty", "kitty"} -> KittyMains(IncludeLine(p))
      [] p = "Waybar" -> WaybarMains
      [] OTHER -> {NoFile}

\* include_line in content, never
ContainsNever(content, text) == FALSE

\* include_line in content: of the lines a main config is made of here, only
\* the directive itself contains the directive's text
ContainsText(content, text) == \E i \in DOMAIN content : content[i] = text

\* the number of lines of a file that are the directive
CountLines(f, text) ==
    IF f.exists THEN Cardinality({i \in DOMAIN f.data : f.data[i] = text}) ELSE 0

SetMax(S) == CHOOSE x \in S : \A y \in S : y <= x
SetMin(S) == CHOOSE x \in S : \A y \in S : x <= y

\* theme_plugins.KittyPlugin.apply_theme after super().apply_theme succeeded
KittyPlugin_main_conf(mn) ==
    IF mn.exists
    THEN IF ~ContainsText(mn.data, KittyInclude)
         THEN File(mn.data \o <<"# Theme Manager colors", KittyInclude, "">>)
         ELSE mn
    ELSE File(<<"# Kitty configuration", KittyInclude, "">>)

\* plugins/kitty_plugin._update_kitty_config: append unless already there
update_kitty_config(mn) ==
    IF mn.exists /\ ContainsText(mn.data, PywalInclude)
    THEN mn
    ELSE File((IF mn.exists THEN mn.data ELSE <<"">>)
              \o <<"# Pywal colors", PywalInclude, "">>)

\* the insert position theme_plugins.WaybarPlugin.apply_theme computes: after
\* the last @define-color line, else after the first line closing a comment,
\* else the top
insert_index(lines) ==
    LET defs == {i \in DOMAIN lines : lines[i] \in DefineColorLines}
        ends == {i \in DOMAIN lines : lines[i] \in CommentEndLines}
    IN IF defs # {} THEN SetMax(defs)
       ELSE IF ends # {} THEN SetMin(ends)
       ELSE 0

\* theme_plugins.WaybarPlugin.apply_theme after super().apply_theme succeeded
WaybarPlugin_main_style(mn) ==
    IF mn.exists
    THEN IF ~ContainsText(mn.data, WaybarImport)
         THEN LET at == insert_index(mn.data)
              IN File(SubSeq(mn.data, 1, at)
                      \o <<"", "/* Theme Manager colors (override fallbacks) */",
                           WaybarImport, "">>
                      \o SubSeq(mn.data, at + 1, Len(mn.data)))
         ELSE mn
    ELSE File(<<"/* Waybar configuration */", WaybarImport, "">>)

\* apply_theme of the class p: [ret, config, backup, wrote, main]
PluginApply(p, cfg, bak, mn, tf, colors, bio, io) ==
    LET base == CASE p \in TemplatePlugins ->
                       TemplatePlugin_apply_theme(cfg, bak, tf, colors, bio, io)
                  [] p = "gtk" -> GtkPlugin_apply_theme(cfg, bak)
                  [] OTHER -> DirPlugin_apply_theme(cfg, bak, tf, colors, io)
        mn2 == CASE ~base.ret -> mn
                 [] p = "Kitty" -> KittyPlugin_main_conf(mn)
                 [] p = "Waybar" -> WaybarPlugin_main_style(mn)
                 [] p = "kitty" -> update_kitty_config(mn)
                 [] OTHER -> mn
    IN [ret |-> base.ret, config |-> base.config, backup |-> base.backup,
        wrote |-> base.wrote, write |-> base.write, main |-> mn2]

\* backup_config of the class p
PluginBackup(p, cfg, bak, io) ==
    IF p \in TemplatePlugins
    THEN ThemePlugin_backup_config(cfg, bak, io)
    ELSE DirPlugin_backup_config(cfg, bak, io)

\* restore_config of the class p
PluginRestore(p, cfg, bak, io) ==
    IF p \in TemplatePlugins
    THEN ThemePlugin_restore_config(cfg, bak, io)
    ELSE DirPlugin_restore_config(cfg, bak, io)

\* ---- the calls on one plugin ----

UserFiles == {File(<<"user-1">>), File(<<"user-2">>)}

\* what an editor or another program leaves at config_path
ConfigEdits == UserFiles \cup {NoFile}

TemplateFiles == {NoFile, File(<<>>), File(<<Ph("color0"), "text">>)}

\* the palettes handed to apply_theme: flat for theme_plugins.py, the
\* colors.json document for plugins/
ApplyFlat == {PaletteOver({}), PaletteOver({"color0"})}
ApplyNested ==
    { [present |-> FALSE, colors |-> EmptyMap, special |-> EmptyMap],
      [present |-> TRUE, colors |-> PaletteOver({}), special |-> EmptyMap],
      [present |-> TRUE, colors |-> PaletteOver({"color0"}), special |-> EmptyMap] }

ApplyPalettes(p) == IF p \in TemplatePlugins THEN ApplyFlat ELSE ApplyNested

CopyOutcomes == {"ok", "fail"}

\* the copies apply_theme of the class p makes: only theme_plugins.py has one
ApplyCopies(p) == IF p \in TemplatePlugins THEN CopyOutcomes ELSE {"ok"}

NoSnap == [valid |-> FALSE, file |-> NoFile]

apply_theme ==
    /\ applied < MaxApplies
    /\ \E colors \in ApplyPalettes(plugin), bio \in ApplyCopies(plugin),
          io \in WriteOutcomes :
         LET r == PluginApply(plugin, config, backup, main, template_file,
                              colors, bio, io)
         IN /\ config' = r.config
            /\ backup' = r.backup
            /\ main' = r.main
            /\ wrote' = r.wrote
            /\ write_result' = r.write
            /\ fret' = r.ret
            /\ applied' = IF r.ret THEN applied + 1 ELSE applied
            /\ fio' = IF bio = "ok" /\ io = "ok" THEN "ok" ELSE "fail"
    /\ fop' = "apply_theme"
    /\ pre_config' = config
    /\ clean' = FALSE
    /\ UNCHANGED <<plugin, template_file, gtk4_backup, main0, snap>>
    /\ UNCHANGED notFileVars

\* GtkPlugin also stores the current theme name when gsettings answers
backup_config ==
    /\ \E io \in CopyOutcomes, gs \in BOOLEAN :
         LET r == PluginBackup(plugin, config, backup, io)
         IN /\ backup' = r.backup
            /\ fret' = r.ret
            /\ fio' = io
            /\ snap' = IF r.ret /\ config.exists
                       THEN [valid |-> TRUE, file |-> config]
                       ELSE NoSnap
            /\ gtk4_backup' = (gtk4_backup \/ (plugin = "gtk" /\ gs))
    /\ fop' = "backup_config"
    /\ pre_config' = config
    /\ wrote' = FALSE
    /\ write_result' = "none"
    /\ clean' = TRUE
    /\ UNCHANGED <<plugin, template_file, config, main, applied, main0>>
    /\ UNCHANGED notFileVars

restore_config ==
    /\ \E io \in CopyOutcomes :
         LET r == PluginRestore(plugin, config, backup, io)
         IN /\ config' = r.config
            /\ fret' = r.ret
            /\ fio' = io
    /\ fop' = "restore_config"
    /\ pre_config' = config
    /\ wrote' = FALSE
    /\ write_result' = "none"
    /\ UNCHANGED <<plugin, template_file, backup, main, gtk4_backup, applied,
                   main0, snap, clean>>
    /\ UNCHANGED notFileVars

\* the config file is edited, replaced or deleted from outside the program
ModifyConfig ==
    /\ \E f \in ConfigEdits :
         /\ f # config
         /\ config' = f
    /\ fop' = "modify"
    /\ fret' = FALSE
    /\ fio' = "ok"
    /\ pre_config' = config
    /\ wrote' = FALSE
    /\ write_result' = "none"
    /\ UNCHANGED <<plugin, template_file, backup, main, gtk4_backup, applied,
                   main0, snap, clean>>
    /\ UNCHANGED notFileVars

InitFiles ==
    /\ plugin \in PluginClasses
    /\ template_file \in TemplateFiles
    /\ config \in {NoFile, File(<<"user-1">>)}
    /\ backup \in {NoFile, File(<<"user-0">>)}
    /\ main \in MainFiles(plugin)
    /\ main0 = main
    /\ gtk4_backup = FALSE
    /\ fop = "idle"
    /\ fret = FALSE
    /\ fio = "ok"
    /\ wrote = FALSE
    /\ write_result = "none"
    /\ applied = 0
    /\ pre_config = config
    /\ snap = NoSnap
    /\ clean = FALSE
    /\ IdleRegistry
    /\ IdleTemplate
    /\ IdleColors
    /\ IdleCache
    /\ IdleSession

NextFiles ==
    \/ apply_theme
    \/ backup_config
    \/ restore_config
    \/ ModifyConfig

SpecFiles == InitFiles /\ [][NextFiles]_vars

\* C4: a backup_config that succeeded on an existing config, then only edits
\* of the config file from outside, then a restore_config whose copy does not
\* fail: restore_config returns True and the config file is again what it was
\* when the backup was taken.
C4_BackupRestoreRoundTrip ==
    (fop = "restore_config" /\ snap.valid /\ clean /\ fio = "ok")
        => (fret /\ config = snap.file)

\* a restore that brought back the backed-up content over a different one
C4_Witness ==
    /\ fop = "restore_config"
    /\ snap.valid
    /\ clean
    /\ fio = "ok"
    /\ fret
    /\ pre_config # snap.file
    /\ config = snap.file

C10_BackupBeforeWrite ==
    (fop = "apply_theme" /\ wrote /\ fio = "ok" /\ pre_config.exists)
        => backup = pre_config

\* C11: an apply_theme whose write of the rendered config fails returns
\* False, and an apply_theme of a template-based plugin that returns True has
\* written the rendered config.
C11_WriteFailureIsFalse ==
    /\ (fop = "apply_theme" /\ write_result \in {"unchanged", "truncated"})
           => ~fret
    /\ (fop = "apply_theme" /\ fret /\ plugin # "gtk") => write_result = "ok"

\* C19: a backup_config of any plugin class whose config file does not exist
\* returns True and creates no backup artifact: the backup file and the
\* GTK 4 theme backup are as they were before the call.
C19_NothingToBackUp ==
    [][(backup_config /\ ~config.exists) =>
          /\ fret'
          /\ backup' = backup
          /\ gtk4_backup' = gtk4_backup]_vars

\* C27: for a TemplatePlugin, after an apply_theme that returned True with
\* no I/O fault on an existing config, the backup holds the config as it was
\* immediately before that apply_theme, whatever number of applies came
\* before, and restore_config brings that content back: after two applies
\* the output of the first, not the user's original config.
C27_BackupIsPreviousConfig ==
    (/\ plugin \in TemplatePlugins
     /\ fop = "apply_theme" /\ fret /\ fio = "ok"
     /\ pre_config.exists)
        => /\ backup = pre_config
           /\ ThemePlugin_restore_config(config, backup, "ok").config = pre_config

\* a second apply, after which the backup is the output of the first
C27_Witness ==
    /\ plugin \in TemplatePlugins
    /\ applied = 2
    /\ fop = "apply_theme" /\ fret /\ fio = "ok"
    /\ backup = pre_config
    /\ backup \notin UserFiles \cup {File(<<"user-0">>)}
    /\ backup # config

(***************************************************************************)
(* The registry next to the files of one of its plugins: enable_plugin and *)
(* disable_plugin of PluginManager interleaved with backup_config of that  *)
(* plugin.                                                                 *)
(***************************************************************************)
InitEnablement ==
    /\ plugin_dir = <<"kitty", "waybar", "mako">>
    /\ installed = PluginNames
    /\ plugins = plugin_dir
    /\ enabled_plugins \in {<<"kitty", "waybar", "mako">>, <<"mako", "kitty">>}
    /\ config_file = FileWith(enabled_plugins)
    /\ rop = [name |-> "init", arg |-> ""]
    /\ rret = FALSE
    /\ no_file_at_init = FALSE
    /\ save_result = "none"
    /\ processed = <<>>
    /\ outcome = EmptyMap
    /\ calls = <<>>
    /\ results = EmptyMap
    /\ raised = FALSE
    /\ filtered = FALSE
    /\ plugin \in PluginNames
    /\ template_file = NoFile
    /\ config \in {NoFile, File(<<"user-1">>)}
    /\ backup \in {NoFile, File(<<"user-0">>)}
    /\ main \in MainFiles(plugin)
    /\ main0 = main
    /\ gtk4_backup = FALSE
    /\ fop = "idle"
    /\ fret = FALSE
    /\ fio = "ok"
    /\ wrote = FALSE
    /\ write_result = "none"
    /\ applied = 0
    /\ pre_config = config
    /\ snap = NoSnap
    /\ clean = FALSE
    /\ IdleTemplate
    /\ IdleColors
    /\ IdleCache
    /\ IdleSession

DisableStep == \E n \in CallNames, wr \in WriteOutcomes : disable_plugin(n, wr)

NextEnablement ==
    \/ \E n \in CallNames, wr \in WriteOutcomes : enable_plugin(n, wr)
    \/ DisableStep
    \/ backup_config

SpecEnablement == InitEnablement /\ [][NextEnablement]_vars

\* C18: a disable_plugin call changes nothing but the enabled list and the
\* enablement file: the plugin's config file, its backup, its main config
\* and the GTK 4 backup marker are the same after the call as before it, and
\* so are the loaded plugins and the plugin directory.
C18_DisableFrame ==
    [][DisableStep =>
          /\ UNCHANGED <<config, backup, main, gtk4_backup, template_file>>
          /\ UNCHANGED <<plugins, plugin_dir, installed>>]_vars

C18_Witness ==
    /\ rop = [name |-> "disable_plugin", arg |-> plugin]
    /\ rret
    /\ plugin \notin Range(enabled_plugins)
    /\ config.exists
    /\ backup = File(<<"user-1">>)
    /\ fop = "backup_config"

\* ---------------------------------------------------------------------------
\* The GTK application session: main.py
\* ---------------------------------------------------------------------------

Wallpapers == {"w1", "w2"}

\* what a state directory holds: nothing, the state from before the session,
\* the backup of an earlier session, an incomplete copy, or the state the
\* colour tool wrote for a wallpaper
DirStates == {"absent", "pre", "stale", "partial"} \cup Wallpapers

\* rmtree then copytree: done, rmtree raised, or copytree raised
TreeOutcomes == {"ok", "rmtree", "copytree"}

\* the exit status of a wal run
WalExit == {"ok", "failed"}

\* the callbacks that may wait in the main loop
MaxIdle == 1

\* shutil.rmtree(dst) if dst exists, then shutil.copytree(src, dst)
ReplaceTree(src, dst, io) ==
    CASE io = "rmtree" /\ dst # "absent" -> dst
      [] io = "copytree" -> "partial"
      [] OTHER -> src

\* ThemeManagerApplication.backup_current_theme: nothing happens when the live
\* directory does not exist; every exception is caught
backup_current_theme(live, bak, io) ==
    IF live = "absent" THEN bak ELSE ReplaceTree(live, bak, io)

\* ThemeManagerApplication.restore_original_theme: nothing happens when there
\* is no backup directory; every exception is caught
restore_original_theme(live, bak, io) ==
    IF bak = "absent" THEN live ELSE ReplaceTree(bak, live, io)

\* GLib.idle_add(callback, arg); refresh_preview_colors and the error
\* callbacks change widgets only and are not kept in the queue
IdleAdd(q, cb, arg) ==
    IF cb \in {"refresh_preview_colors", "on_colors_applied_error",
               "on_theme_applied_error"}
    THEN q
    ELSE Append(q, [cb |-> cb, arg |-> arg])

SessionFrame == UNCHANGED notSessVars

\* ThemeManagerApplication.__init__ and the window's load_preview_setting
ThemeManagerApplication_init(io) ==
    /\ phase = "start"
    /\ phase' = "running"
    /\ theme_applied' = FALSE
    /\ theme_backup' = backup_current_theme(wal_dir, theme_backup, io)
    /\ startup_io' = io
    /\ UNCHANGED <<wal_dir, plugin_cfg, selected_wallpaper, preview_colors,
                   live_preview_enabled, preview_thread, colors_thread,
                   theme_thread, idle_q, wal_dir0, acked, quit_restore>>
    /\ SessionFrame

\* ThemeManagerWindow.on_wallpaper_selected: a row, or no row
on_wallpaper_selected(w) ==
    /\ phase = "running"
    /\ IF w # ""
       THEN /\ preview_thread.pc = "idle"
            /\ selected_wallpaper' = w
            /\ preview_thread' = [pc |-> "run", path |-> w]
            /\ UNCHANGED idle_q
       ELSE /\ selected_wallpaper' = ""
            /\ UNCHANGED <<preview_thread, idle_q>>
    /\ UNCHANGED <<phase, wal_dir, theme_backup, plugin_cfg, theme_applied,
                   preview_colors, live_preview_enabled, colors_thread,
                   theme_thread, startup_io, wal_dir0, acked, quit_restore>>
    /\ SessionFrame

\* the thread body generate_preview_colors: wal runs with XDG_CACHE_HOME set
\* to a temporary directory
generate_preview_colors(rc) ==
    /\ phase = "running"
    /\ preview_thread.pc = "run"
    /\ Len(idle_q) < MaxIdle
    /\ preview_thread' = NoThread
    /\ IF rc = "ok"
       THEN /\ preview_colors' = preview_thread.path
            /\ idle_q' = IF live_preview_enabled
                          THEN IdleAdd(idle_q, "apply_live_preview",
                                       preview_thread.path)
                          ELSE idle_q
       ELSE UNCHANGED <<preview_colors, idle_q>>
    /\ UNCHANGED <<phase, wal_dir, theme_backup, plugin_cfg, theme_applied,
                   selected_wallpaper, live_preview_enabled, colors_thread,
                   theme_thread, startup_io, wal_dir0, acked, quit_restore>>
    /\ SessionFrame

\* what "wal -i path -n" and apply_themes(read_pywal_colors()) leave in
\* <<live directory, plugin configs>>
LiveApply(live, cfg, path, rc) ==
    IF rc = "ok" THEN <<path, path>> ELSE <<live, cfg>>

\* ThemeManagerWindow.apply_live_preview, run from the main loop
apply_live_preview(rc) ==
    /\ phase = "running"
    /\ idle_q # <<>>
    /\ Head(idle_q).cb = "apply_live_preview"
    /\ idle_q' = Tail(idle_q)
    /\ wal_dir' = LiveApply(wal_dir, plugin_cfg, Head(idle_q).arg, rc)[1]
    /\ plugin_cfg' = LiveApply(wal_dir, plugin_cfg, Head(idle_q).arg, rc)[2]
    /\ UNCHANGED <<phase, theme_backup, theme_applied, selected_wallpaper,
                   preview_colors, live_preview_enabled, preview_thread,
                   colors_thread, theme_thread, startup_io, wal_dir0, acked,
                   quit_restore>>
    /\ SessionFrame

\* on_colors_applied_success / on_theme_applied_success: the flag is set
applied_callback(name) ==
    /\ phase = "running"
    /\ idle_q # <<>>
    /\ Head(idle_q).cb = name
    /\ idle_q' = Tail(idle_q)
    /\ theme_applied' = TRUE
    /\ acked' = TRUE
    /\ UNCHANGED <<phase, wal_dir, theme_backup, plugin_cfg,
                   selected_wallpaper, preview_colors, live_preview_enabled,
                   preview_thread, colors_thread, theme_thread, startup_io,
                   wal_dir0, quit_restore>>
    /\ SessionFrame

on_colors_applied_success == applied_callback("on_colors_applied_success")

on_theme_applied_success == applied_callback("on_theme_applied_success")

\* on_apply_colors_only: the button starts apply_colors_background
on_apply_colors_only ==
    /\ phase = "running"
    /\ preview_colors # ""
    /\ colors_thread.pc = "idle"
    /\ colors_thread' = [pc |-> "wal", path |-> ""]
    /\ UNCHANGED <<phase, wal_dir, theme_backup, plugin_cfg, theme_applied,
                   selected_wallpaper, preview_colors, live_preview_enabled,
                   preview_thread, theme_thread, idle_q, startup_io, wal_dir0,
                   acked, quit_restore>>
    /\ SessionFrame

\* on_apply_theme: the button starts apply_theme_background on the selection
on_apply_theme ==
    /\ phase = "running"
    /\ selected_wallpaper # ""
    /\ theme_thread.pc = "idle"
    /\ theme_thread' = [pc |-> "wal", path |-> selected_wallpaper]
    /\ UNCHANGED <<phase, wal_dir, theme_backup, plugin_cfg, theme_applied,
                   selected_wallpaper, preview_colors, live_preview_enabled,
                   preview_thread, colors_thread, idle_q, startup_io, wal_dir0,
                   acked, quit_restore>>
    /\ SessionFrame

\* the first half of an apply thread: "wal -i path" on the live directory;
\* [thread, live directory, queue] afterwards
ApplyWal(path, live, q, rc, errcb) ==
    IF path = "" \/ rc # "ok"
    THEN [thread |-> NoThread, live |-> live, q |-> IdleAdd(q, errcb, "")]
    ELSE [thread |-> [pc |-> "plugins", path |-> path], live |-> path, q |-> q]

\* the second half: apply_themes(read_pywal_colors()), then the success
\* callback is queued; read_pywal_colors reads what the live directory holds
\* by then
ApplyPlugins(live, cfg) == IF live \in {"absent", "partial"} THEN cfg ELSE live

\* apply_colors_background up to the end of its wal run: the wallpaper is the
\* selection at that moment
apply_colors_background_wal(rc) ==
    /\ phase = "running"
    /\ colors_thread.pc = "wal"
    /\ Len(idle_q) < MaxIdle
    /\ LET r == ApplyWal(selected_wallpaper, wal_dir, idle_q, rc,
                         "on_colors_applied_error")
       IN /\ colors_thread' = r.thread
          /\ wal_dir' = r.live
          /\ idle_q' = r.q
    /\ UNCHANGED <<phase, theme_backup, plugin_cfg, theme_applied,
                   selected_wallpaper, preview_colors, live_preview_enabled,
                   preview_thread, theme_thread, startup_io, wal_dir0, acked,
                   quit_restore>>
    /\ SessionFrame

apply_colors_background_plugins ==
    /\ phase = "running"
    /\ colors_thread.pc = "plugins"
    /\ Len(idle_q) < MaxIdle
    /\ colors_thread' = NoThread
    /\ plugin_cfg' = ApplyPlugins(wal_dir, plugin_cfg)
    /\ idle_q' = IdleAdd(idle_q, "on_colors_applied_success", "")
    /\ UNCHANGED <<phase, wal_dir, theme_backup, theme_applied,
                   selected_wallpaper, preview_colors, live_preview_enabled,
                   preview_thread, theme_thread, startup_io, wal_dir0, acked,
                   quit_restore>>
    /\ SessionFrame

\* apply_theme_background up to the end of its wal run
apply_theme_background_wal(rc) ==
    /\ phase = "running"
    /\ theme_thread.pc = "wal"
    /\ Len(idle_q) < MaxIdle
    /\ LET r == ApplyWal(theme_thread.path, wal_dir, idle_q, rc,
                         "on_theme_applied_error")
       IN /\ theme_thread' = r.thread
          /\ wal_dir' = r.live
          /\ idle_q' = r.q
    /\ UNCHANGED <<phase, theme_backup, plugin_cfg, theme_applied,
                   selected_wallpaper, preview_colors, live_preview_enabled,
                   preview_thread, colors_thread, startup_io, wal_dir0, acked,
                   quit_restore>>
    /\ SessionFrame

apply_theme_background_plugins ==
    /\ phase = "running"
    /\ theme_thread.pc = "plugins"
    /\ Len(idle_q) < MaxIdle
    /\ theme_thread' = NoThread
    /\ plugin_cfg' = ApplyPlugins(wal_dir, plugin_cfg)
    /\ idle_q' = IdleAdd(idle_q, "on_theme_applied_success", "")
    /\ UNCHANGED <<phase, wal_dir, theme_backup, theme_applied,
                   selected_wallpaper, preview_colors, live_preview_enabled,
                   preview_thread, colors_thread, startup_io, wal_dir0, acked,
                   quit_restore>>
    /\ SessionFrame

\* AppConfigWindow.on_preview_setting_changed: switching live preview on
\* applies the selection at once, switching it off restores the backup
on_preview_setting_changed(enabled, rc, io) ==
    /\ phase = "running"
    /\ enabled # live_preview_enabled
    /\ live_preview_enabled' = enabled
    /\ IF enabled /\ selected_wallpaper # ""
       THEN /\ io = "ok"
            /\ wal_dir' = LiveApply(wal_dir, plugin_cfg, selected_wallpaper, rc)[1]
            /\ plugin_cfg' = LiveApply(wal_dir, plugin_cfg, selected_wallpaper, rc)[2]
       ELSE IF ~enabled
       THEN /\ rc = "ok"
            /\ wal_dir' = restore_original_theme(wal_dir, theme_backup, io)
            /\ UNCHANGED plugin_cfg
       ELSE /\ io = "ok" /\ rc = "ok"
            /\ UNCHANGED <<wal_dir, plugin_cfg>>
    /\ UNCHANGED <<phase, theme_backup, theme_applied, selected_wallpaper,
                   preview_colors, preview_thread, colors_thread, theme_thread,
                   idle_q, startup_io, wal_dir0, acked, quit_restore>>
    /\ SessionFrame

\* the test of on_quit_action, without the test
quit_restores_always(flag) == TRUE

\* on_quit_action: "if not self.theme_applied"
quit_restores(flag) == ~flag

\* ThemeManagerApplication.on_quit_action; the threads end with the process
on_quit_action(io) ==
    /\ phase = "running"
    /\ phase' = "quit"
    /\ IF quit_restores(theme_applied)
       THEN /\ wal_dir' = restore_original_theme(wal_dir, theme_backup, io)
            /\ quit_restore' = TRUE
       ELSE /\ io = "ok"
            /\ UNCHANGED wal_dir
            /\ quit_restore' = FALSE
    /\ UNCHANGED <<theme_backup, plugin_cfg, theme_applied, selected_wallpaper,
                   preview_colors, live_preview_enabled, preview_thread,
                   colors_thread, theme_thread, idle_q, startup_io, wal_dir0,
                   acked>>
    /\ SessionFrame

\* before the application object exists: the live directory as another
\* session or the colour tool left it, the backup of an earlier session or none
InitSession ==
    /\ phase = "start"
    /\ wal_dir \in {"absent", "pre"}
    /\ theme_backup \in {"absent", "stale"}
    /\ plugin_cfg = "pre"
    /\ theme_applied = FALSE
    /\ selected_wallpaper = ""
    /\ preview_colors = ""
    /\ live_preview_enabled \in BOOLEAN
    /\ preview_thread = NoThread
    /\ colors_thread = NoThread
    /\ theme_thread = NoThread
    /\ idle_q = <<>>
    /\ startup_io = "ok"
    /\ wal_dir0 = wal_dir
    /\ acked = FALSE
    /\ quit_restore = FALSE
    /\ IdleRegistry
    /\ IdleTemplate
    /\ IdleColors
    /\ IdleCache
    /\ IdleFiles

NextSession ==
    \/ \E io \in TreeOutcomes : ThemeManagerApplication_init(io)
    \/ \E w \in Wallpapers \cup {""} : on_wallpaper_selected(w)
    \/ \E rc \in WalExit : generate_preview_colors(rc)
    \/ \E rc \in WalExit : apply_live_preview(rc)
    \/ on_colors_applied_success
    \/ on_theme_applied_success
    \/ on_apply_colors_only
    \/ on_apply_theme
    \/ \E rc \in WalExit : apply_colors_background_wal(rc)
    \/ apply_colors_background_plugins
    \/ \E rc \in WalExit : apply_theme_background_wal(rc)
    \/ apply_theme_background_plugins
    \/ \E enabled \in BOOLEAN, rc \in WalExit, io \in TreeOutcomes :
          on_preview_setting_changed(enabled, rc, io)
    \/ \E io \in TreeOutcomes : on_quit_action(io)

SpecSession == InitSession /\ [][NextSession]_vars

\* C13: when on_quit_action has run, it called restore_original_theme exactly
\* if theme_applied was False, and theme_applied is True exactly if a success
\* callback of an apply (on_colors_applied_success, on_theme_applied_success)
\* has run in the session.
C13_RestoreIffNotApplied ==
    /\ theme_applied <=> acked
    /\ phase = "quit" => (quit_restore <=> ~theme_applied)

\* a quit after an apply whose success callback ran, and so without restore
C13_Witness ==
    /\ phase = "quit"
    /\ theme_applied
    /\ ~quit_restore
    /\ wal_dir \in Wallpapers

\* C14: once backup_current_theme has run without an I/O fault, the backup
\* directory holds what the live directory held at this startup and nothing
\* else, also when there was no live directory.
C14_BackupIsThisSession ==
    (phase # "start" /\ startup_io = "ok") => theme_backup = wal_dir0

\* a commit thread's wal run has rewritten the live directory: the thread is
\* at its plugins half, or its success callback waits in the main loop, or
\* the callback has run
CommitRewrote ==
    \/ colors_thread.pc = "plugins"
    \/ theme_thread.pc = "plugins"
    \/ \E i \in DOMAIN idle_q :
          idle_q[i].cb \in {"on_colors_applied_success", "on_theme_applied_success"}
    \/ acked

\* C24: once a commit apply has rewritten the live colour-tool state, a quit
\* at any later point does not call restore_original_theme, also when the
\* success callback has not yet set theme_applied.
C24_NoRestoreAfterCommit ==
    (phase = "quit" /\ CommitRewrote) => ~quit_restore

\* C25: once theme_applied is True, whatever changes the live directory is a
\* run of the colour tool for a wallpaper, never a restore of the startup
\* backup; switching live preview off leaves the directory alone.
C25_NoRestoreOnceApplied ==
    [][(theme_applied /\ wal_dir' # wal_dir) => wal_dir' \in Wallpapers]_vars

\* on_quit_action or the switching off of live preview
RestoreStep ==
    \/ phase = "running" /\ phase' = "quit"
    \/ live_preview_enabled /\ ~live_preview_enabled'

\* C28: after restore_original_theme, whether it succeeded or failed, the
\* live directory is the backup or what it was before the call.
C28_RestoreAllOrNothing ==
    [][RestoreStep => wal_dir' \in {wal_dir, theme_backup}]_vars

====
